---- MODULE Spec2Model ----
(***************************************************************************)
(* Model of snoocore's RedditRequest (src/src/RedditRequest.js): the       *)
(* request / retry / reauthentication state machine of callRedditApi and   *)
(* responseErrorHandler, and the listing cursor of getListing.             *)
(*                                                                         *)
(* The specifications of the module:                                       *)
(*   Spec        - calls going through callRedditApi and the error handler *)
(*   SpecListing - one getListing call and navigation on its slices        *)
(*   SpecSlice   - the first slice of a getListing call, for every listing *)
(*                 of up to MaxChildren children                           *)
(*   SpecSuccess - one call answered with a 2xx response, for every body   *)
(*                 of up to MaxBody tokens                                 *)
(*   SpecFair    - call c1 with a fair transport and fair reauth actions   *)
(***************************************************************************)
EXTENDS Integers, Sequences, FiniteSets, TLC

VARIABLES
  oauth,          \* this._oauth: the user-context provider's token state
  oauthAppOnly,   \* this._oauthAppOnly: the app-only provider's token state
  userConfig,     \* this._userConfig: isNode, oauth grant type
  call,           \* per call of callRedditApi: position, endpoint, handler record
  failures,       \* number of error responses the server has produced so far
  given,          \* the arguments getListing's endpoint was built from
  count,          \* getListing: the running count (closure variable)
  limit,          \* getListing: the limit (closure variable)
  start,          \* getListing: the start cursor (closure variable)
  endpoints,      \* heap of Endpoint objects used by the listing (their args)
  slices,         \* the slices produced so far, in order of creation
  pending,        \* the getSlice request in flight, or NoRequest
  last,           \* the most recent navigation call and the request it sent
  navs,           \* number of navigation calls made so far
  calls           \* the navigation calls made since getListing, in order

reqVars     == <<oauth, oauthAppOnly, userConfig, call, failures>>
listingVars == <<given, count, limit, start, endpoints, slices, pending, last, navs,
                 calls>>
vars        == <<oauth, oauthAppOnly, userConfig, call, failures,
                 given, count, limit, start, endpoints, slices, pending, last, navs,
                 calls>>

-----------------------------------------------------------------------------
(* Bounds *)

\* the server produces at most this many error responses over all calls
MaxFailures == 2

\* at most this many navigation calls (next/previous/start/requery) are made
MaxNav == 2

\* a listing of SpecSlice has at most this many children
MaxChildren == 3

\* a response body of SpecSuccess has at most this many tokens
MaxBody == 3

\* the concurrent calls of callRedditApi
Calls == {"c1", "c2"}

\* statuses the transport hands to the error handler
ErrorStatuses == {400, 401, 404, 500, 599}

-----------------------------------------------------------------------------
(* Values *)

NoEndpoint == [none |-> TRUE]
NoResponse == [none |-> TRUE]
NoError    == [none |-> TRUE]

\* the www-authenticate header: absent, or a string given as its tokens
NoHeader == [present |-> FALSE, tokens |-> <<>>]
WwwAuthenticateValues ==
  { NoHeader,
    [present |-> TRUE, tokens |-> <<"Bearer", "invalid_token">>],
    [present |-> TRUE, tokens |-> <<"Bearer", "insufficient_scope">>] }

Responses ==
  { [status |-> s, wwwAuthenticate |-> w] :
      s \in ErrorStatuses, w \in WwwAuthenticateValues }

MsgScope    == "Insufficient scopes provided for this call"
MsgNotFound == "Page nod found. Is this a valid endpoint?"
MsgExpired  == "Access token has expired."
MsgGeneric  == "This call failed. This is an unrecoverable error."

\* new ResponseError(message, response, endpoint)
ResponseError(message, response, endpoint) ==
  [kind |-> "ResponseError", message |-> message,
   response |-> response, endpoint |-> endpoint]

\* reauthPromise is undefined: `reauthPromise.then` throws a TypeError
TypeErrorUndefinedThen ==
  [kind |-> "TypeError", message |-> "Cannot read property 'then' of undefined",
   response |-> NoResponse, endpoint |-> NoEndpoint]

\* the failure a provider's refresh()/auth()/applicationOnlyAuth() rejects with
ReauthError ==
  [kind |-> "Error", message |-> "reauthentication failed",
   response |-> NoResponse, endpoint |-> NoEndpoint]

-----------------------------------------------------------------------------
(* Pure helpers *)

\* String.prototype.indexOf on the header's tokens: the index, or -1
IndexOf(tokens, t) ==
  IF \E i \in 1..Len(tokens) : tokens[i] = t
  THEN (CHOOSE i \in 1..Len(tokens) :
          tokens[i] = t /\ \A j \in 1..(i-1) : tokens[j] # t) - 1
  ELSE -1

\* wwwAuth && wwwAuth.indexOf('insufficient_scope') !== -1
HasInsufficientScope(response) ==
  /\ response.wwwAuthenticate.present
  /\ IndexOf(response.wwwAuthenticate.tokens, "insufficient_scope") # -1

RECURSIVE FirstDigit(_)
\* String(n).substring(0, 1), as a digit
FirstDigit(n) == IF n < 10 THEN n ELSE FirstDigit(n \div 10)

\* variant: only status 500 counts as a server error
IsServerErrorExact500(status) == status = 500

\* String(response._status).substring(0, 1) === '5'
IsServerError(status) == FirstDigit(status) = 5

\* this._userConfig.isOAuthType(name)
IsOAuthType(name) == userConfig.oauthType = name

\* isApplicationOnly()
IsApplicationOnly ==
  ~oauth.hasAccessToken /\ ~oauth.canRefreshAccessToken

\* provider.getAuthorizationHeader(): which provider, and which of its tokens
UserAuthorizationHeader == <<"user", oauth.gen>>
AppAuthorizationHeader  == <<"app", oauthAppOnly.gen>>

\* buildHeaders(contextOptions)
BuildHeaders(contextOptions) ==
  [UserAgent     |-> IF userConfig.isNode THEN "snoocore" ELSE "unset",
   Authorization |-> IF contextOptions.bypassAuth \/ IsApplicationOnly
                     THEN AppAuthorizationHeader
                     ELSE UserAuthorizationHeader]

\* new Endpoint(userConfig, hostname, method, path, headers, givenArgs,
\*              contextOptions, port)
Endpoint(hostname, method, path, headers, givenArgs, contextOptions, port) ==
  [hostname |-> hostname, method |-> method, path |-> path,
   headers |-> headers, givenArgs |-> givenArgs,
   contextOptions |-> contextOptions, port |-> port]

\* variant: the retry endpoint is built with empty context options
ModifiedEndpointNoContext(endpoint) ==
  Endpoint(endpoint.hostname, endpoint.method, endpoint.path,
           BuildHeaders(endpoint.contextOptions), endpoint.givenArgs,
           [bypassAuth |-> FALSE, decodeHtmlEntities |-> FALSE], endpoint.port)

\* the retry endpoint: the failed endpoint's fields with recomputed headers
ModifiedEndpoint(endpoint) ==
  Endpoint(endpoint.hostname, endpoint.method, endpoint.path,
           BuildHeaders(endpoint.contextOptions),
           endpoint.givenArgs, endpoint.contextOptions, endpoint.port)

-----------------------------------------------------------------------------
(* The handler record of a call: what the current invocation of            *)
(* responseErrorHandler has done so far.                                   *)

IdleCall ==
  [pc |-> "idle", endpoint |-> NoEndpoint, response |-> NoResponse,
   handled |-> NoEndpoint, entry |-> [none |-> TRUE],
   reauth |-> "none", refreshCalls |-> 0, authCalls |-> 0,
   appAuthCalls |-> 0, emits |-> 0, reauthGen |-> -1,
   outcome |-> "none", retry |-> NoEndpoint, error |-> NoError,
   success |-> NoResponse, data |-> [kind |-> "none"], retries |-> 0]

\* the provider state as the handler sees it when it is invoked
Entry(endpoint) ==
  [isApplicationOnly     |-> IsApplicationOnly,
   bypassAuth            |-> endpoint.contextOptions.bypassAuth,
   canRefreshAccessToken |-> oauth.canRefreshAccessToken,
   hasRefreshToken       |-> oauth.hasRefreshToken,
   script                |-> IsOAuthType("script"),
   userGen               |-> oauth.gen,
   appGen                |-> oauthAppOnly.gen]

\* a fresh invocation of responseErrorHandler(response, endpoint) for call c
Invoked(c, response) ==
  [call[c] EXCEPT !.response = response, !.handled = call[c].endpoint,
                  !.entry = Entry(call[c].endpoint),
                  !.reauth = "none", !.refreshCalls = 0, !.authCalls = 0,
                  !.appAuthCalls = 0, !.emits = 0, !.reauthGen = -1,
                  !.outcome = "none", !.retry = NoEndpoint, !.error = NoError]

\* return when.reject(error)
Rejected(h, error) ==
  [h EXCEPT !.pc = "rejected", !.outcome = "reject", !.error = error]

\* return when.resolve(modifiedEndpoint)
Resolved(h, modifiedEndpoint) ==
  [h EXCEPT !.pc = "retry", !.outcome = "retry", !.retry = modifiedEndpoint]

\* variant: a handler joins the same action another call has in flight
\* instead of invoking the provider again
ReauthenticatingShared(h, action) ==
  LET inFlight == \E d \in Calls : call[d].pc = "reauth" /\ call[d].reauth = action
      invoked  == IF inFlight THEN 0 ELSE 1
  IN  [h EXCEPT !.pc = "reauth", !.outcome = "pending", !.reauth = action,
                !.refreshCalls = @ + (IF action = "refresh" THEN invoked ELSE 0),
                !.authCalls = @ + (IF action = "auth" THEN invoked ELSE 0),
                !.appAuthCalls = @ + (IF action = "applicationOnlyAuth" THEN invoked ELSE 0)]

\* reauthPromise = <provider>.<action>(); return reauthPromise.then(...)
Reauthenticating(h, action) ==
  [h EXCEPT !.pc = "reauth", !.outcome = "pending", !.reauth = action,
            !.refreshCalls = @ + (IF action = "refresh" THEN 1 ELSE 0),
            !.authCalls = @ + (IF action = "auth" THEN 1 ELSE 0),
            !.appAuthCalls = @ + (IF action = "applicationOnlyAuth" THEN 1 ELSE 0)]

\* this.emit('access_token_expired')
Emitted(h) == [h EXCEPT !.emits = @ + 1]


-----------------------------------------------------------------------------
(* responseErrorHandler(response, endpoint): the synchronous part, as the  *)
(* new record of call c.                                                   *)

\* variant: the branch without a way to refresh rejects without emitting
AccessTokenExpiredNoEmit(c, response) ==
  LET h        == Invoked(c, response)
      endpoint == call[c].endpoint
  IN  IF IsApplicationOnly \/ endpoint.contextOptions.bypassAuth
      THEN Reauthenticating(h, "applicationOnlyAuth")
      ELSE IF oauth.canRefreshAccessToken
      THEN IF oauth.hasRefreshToken
           THEN Reauthenticating(h, "refresh")
           ELSE IF IsOAuthType("script")
           THEN Reauthenticating(h, "auth")
           ELSE Rejected(h, TypeErrorUndefinedThen)
      ELSE Rejected(h, ResponseError(MsgExpired, response, endpoint))

\* variant: the event is emitted on every 401, before the branches
AccessTokenExpiredAlwaysEmits(c, response) ==
  LET h        == Emitted(Invoked(c, response))
      endpoint == call[c].endpoint
  IN  IF IsApplicationOnly \/ endpoint.contextOptions.bypassAuth
      THEN Reauthenticating(h, "applicationOnlyAuth")
      ELSE IF oauth.canRefreshAccessToken
      THEN IF oauth.hasRefreshToken
           THEN Reauthenticating(h, "refresh")
           ELSE IF IsOAuthType("script")
           THEN Reauthenticating(h, "auth")
           ELSE Rejected(h, TypeErrorUndefinedThen)
      ELSE Rejected(h, ResponseError(MsgExpired, response, endpoint))

\* variant: without a reauth promise the handler goes on to the retry
AccessTokenExpiredNoPromiseRetries(c, response) ==
  LET h        == Invoked(c, response)
      endpoint == call[c].endpoint
  IN  IF IsApplicationOnly \/ endpoint.contextOptions.bypassAuth
      THEN Reauthenticating(h, "applicationOnlyAuth")
      ELSE IF oauth.canRefreshAccessToken
      THEN IF oauth.hasRefreshToken
           THEN Reauthenticating(h, "refresh")
           ELSE IF IsOAuthType("script")
           THEN Reauthenticating(h, "auth")
           ELSE Resolved(h, ModifiedEndpoint(endpoint))
      ELSE Rejected(Emitted(h), ResponseError(MsgExpired, response, endpoint))

\* variant: the refresh token is looked at before the app-only check
AccessTokenExpiredRefreshFirst(c, response) ==
  LET h        == Invoked(c, response)
      endpoint == call[c].endpoint
  IN  IF oauth.canRefreshAccessToken /\ oauth.hasRefreshToken
      THEN Reauthenticating(h, "refresh")
      ELSE IF IsApplicationOnly \/ endpoint.contextOptions.bypassAuth
      THEN Reauthenticating(h, "applicationOnlyAuth")
      ELSE IF oauth.canRefreshAccessToken
      THEN IF IsOAuthType("script")
           THEN Reauthenticating(h, "auth")
           ELSE Rejected(h, TypeErrorUndefinedThen)
      ELSE Rejected(Emitted(h), ResponseError(MsgExpired, response, endpoint))

\* status 401: choose the reauth action (lines 108-136)
AccessTokenExpired(c, response) ==
  LET h        == Invoked(c, response)
      endpoint == call[c].endpoint
  IN  IF IsApplicationOnly \/ endpoint.contextOptions.bypassAuth
      THEN Reauthenticating(h, "applicationOnlyAuth")
      ELSE IF oauth.canRefreshAccessToken
      THEN IF oauth.hasRefreshToken
           THEN Reauthenticating(h, "refresh")
           ELSE IF IsOAuthType("script")
           THEN Reauthenticating(h, "auth")
           \* reauthPromise stays undefined; line 138 throws
           ELSE Rejected(h, TypeErrorUndefinedThen)
      ELSE Rejected(Emitted(h), ResponseError(MsgExpired, response, endpoint))

\* variant: the 404 check precedes the www-authenticate check
ErrorHandlerNotFoundFirst(c, response) ==
  LET h        == Invoked(c, response)
      endpoint == call[c].endpoint
  IN  IF response.status = 404
      THEN Rejected(h, ResponseError(MsgNotFound, response, endpoint))
      ELSE IF HasInsufficientScope(response)
      THEN Rejected(h, ResponseError(MsgScope, response, endpoint))
      ELSE IF response.status = 401
      THEN AccessTokenExpired(c, response)
      ELSE IF IsServerError(response.status)
      THEN Resolved(h, ModifiedEndpoint(endpoint))
      ELSE Rejected(h, ResponseError(MsgGeneric, response, endpoint))

\* variant: the 404 check never matches
ErrorHandlerNoNotFound(c, response) ==
  LET h        == Invoked(c, response)
      endpoint == call[c].endpoint
  IN  IF HasInsufficientScope(response)
      THEN Rejected(h, ResponseError(MsgScope, response, endpoint))
      ELSE IF response.status = 401
      THEN AccessTokenExpired(c, response)
      ELSE IF IsServerError(response.status)
      THEN Resolved(h, ModifiedEndpoint(endpoint))
      ELSE Rejected(h, ResponseError(MsgGeneric, response, endpoint))

\* variant: a call that has been retried is not retried again on a 5xx
ErrorHandlerRetryOnce(c, response) ==
  LET h        == Invoked(c, response)
      endpoint == call[c].endpoint
  IN  IF HasInsufficientScope(response)
      THEN Rejected(h, ResponseError(MsgScope, response, endpoint))
      ELSE IF response.status = 404
      THEN Rejected(h, ResponseError(MsgNotFound, response, endpoint))
      ELSE IF response.status = 401
      THEN AccessTokenExpired(c, response)
      ELSE IF IsServerError(response.status) /\ call[c].retries < 1
      THEN Resolved(h, ModifiedEndpoint(endpoint))
      ELSE Rejected(h, ResponseError(MsgGeneric, response, endpoint))

\* variant: the handler ends without a promise for a status it has no
\* branch for, and the call is never settled
ErrorHandlerNoGenericReject(c, response) ==
  LET h        == Invoked(c, response)
      endpoint == call[c].endpoint
  IN  IF HasInsufficientScope(response)
      THEN Rejected(h, ResponseError(MsgScope, response, endpoint))
      ELSE IF response.status = 404
      THEN Rejected(h, ResponseError(MsgNotFound, response, endpoint))
      ELSE IF response.status = 401
      THEN AccessTokenExpired(c, response)
      ELSE IF IsServerError(response.status)
      THEN Resolved(h, ModifiedEndpoint(endpoint))
      ELSE [h EXCEPT !.pc = "returned"]

\* responseErrorHandler, up to its return (lines 85-185)
ErrorHandler(c, response) ==
  LET h        == Invoked(c, response)
      endpoint == call[c].endpoint
  IN  IF HasInsufficientScope(response)
      THEN Rejected(h, ResponseError(MsgScope, response, endpoint))
      ELSE IF response.status = 404
      THEN Rejected(h, ResponseError(MsgNotFound, response, endpoint))
      ELSE IF response.status = 401
      THEN AccessTokenExpired(c, response)
      ELSE IF IsServerError(response.status)
      THEN Resolved(h, ModifiedEndpoint(endpoint))
      ELSE Rejected(h, ResponseError(MsgGeneric, response, endpoint))

-----------------------------------------------------------------------------
(* handleSuccessResponse: bodies are strings given as their tokens; JSON   *)
(* is the numbers 1, strings and arrays of at most one value.              *)

Quote == "\""

\* the tokens of a body: a quote, its HTML entity, a digit, brackets
BodyTokens == {Quote, "&quot;", "1", "[", "]"}

\* response._body: absent, or a string
NoBody == [present |-> FALSE, text |-> <<>>]
Body(text) == [present |-> TRUE, text |-> text]

\* the bodies of SpecSuccess: absent, or any string of up to MaxBody tokens
Bodies ==
  {NoBody} \cup
  UNION { { Body(t) : t \in [1..n -> BodyTokens] } : n \in 0..MaxBody }

\* the body of a 2xx response in Spec
SpecBodies == { Body(<<"[", "1", "]">>) }

\* JSON values
JsonNumber     == [type |-> "number", chars |-> <<>>, items |-> <<>>]
JsonString(cs) == [type |-> "string", chars |-> cs, items |-> <<>>]
JsonArray(vs)  == [type |-> "array", chars |-> <<>>, items |-> vs]

ParseFailed == [ok |-> FALSE, value |-> JsonNumber, rest |-> <<>>]
Parsed(value, rest) == [ok |-> TRUE, value |-> value, rest |-> rest]

RECURSIVE ParseValue(_)
\* one JSON value at the head of s
ParseValue(s) ==
  IF s = <<>> THEN ParseFailed
  ELSE IF Head(s) = "1" THEN Parsed(JsonNumber, Tail(s))
  ELSE IF Head(s) = Quote
  THEN LET t == Tail(s)
       IN  IF \E i \in 1..Len(t) : t[i] = Quote
           THEN LET i == CHOOSE i \in 1..Len(t) :
                           t[i] = Quote /\ \A j \in 1..(i-1) : t[j] # Quote
                IN  Parsed(JsonString(SubSeq(t, 1, i - 1)), SubSeq(t, i + 1, Len(t)))
           ELSE ParseFailed
  ELSE IF Head(s) = "["
  THEN IF Tail(s) # <<>> /\ Head(Tail(s)) = "]"
       THEN Parsed(JsonArray(<<>>), Tail(Tail(s)))
       ELSE LET r == ParseValue(Tail(s))
            IN  IF r.ok /\ r.rest # <<>> /\ Head(r.rest) = "]"
                THEN Parsed(JsonArray(<<r.value>>), Tail(r.rest))
                ELSE ParseFailed
  ELSE ParseFailed

\* JSON.parse(data): the value, or ok = FALSE when it throws a SyntaxError
JsonParse(s) ==
  LET r == ParseValue(s)
  IN  IF r.ok /\ r.rest = <<>> THEN r ELSE ParseFailed

\* he.decode(data): every entity replaced by its character
HeDecode(s) == [i \in 1..Len(s) |-> IF s[i] = "&quot;" THEN Quote ELSE s[i]]

JsonData(value)  == [kind |-> "json", json |-> value, text |-> <<>>]
StringData(text) == [kind |-> "string", json |-> JsonNumber, text |-> text]

\* variant: without the try/catch a SyntaxError of JSON.parse rejects the call
HandleSuccessNoCatch(response, endpoint) ==
  LET body    == IF response.body.present THEN response.body.text ELSE <<>>
      decoded == IF endpoint.contextOptions.decodeHtmlEntities
                 THEN HeDecode(body) ELSE body
      parsed  == JsonParse(decoded)
  IN  IF parsed.ok
      THEN [pc |-> "resolved", data |-> JsonData(parsed.value)]
      ELSE [pc |-> "rejected", data |-> [kind |-> "none"]]

\* handleSuccessResponse(response, endpoint) (lines 192-206)
HandleSuccess(response, endpoint) ==
  LET body    == IF response.body.present THEN response.body.text ELSE <<>>
      decoded == IF endpoint.contextOptions.decodeHtmlEntities
                 THEN HeDecode(body) ELSE body
      parsed  == JsonParse(decoded)
  IN  IF parsed.ok
      THEN [pc |-> "resolved", data |-> JsonData(parsed.value)]
      ELSE [pc |-> "resolved", data |-> StringData(decoded)]

-----------------------------------------------------------------------------
(* Actions of the request machine *)

\* path(p).<verb>(args, contextOptions): build the endpoint, callRedditApi
\* dispatches it to the transport (lines 65-68, 335-343)
CallRedditApi(c, options) ==
  /\ call[c].pc = "idle"
  /\ \E contextOptions \in options :
           call' = [call EXCEPT ![c] =
                      [@ EXCEPT !.pc = "inflight",
                                !.endpoint =
                                   Endpoint("oauth.reddit.com", "get", "/api/v1/me",
                                            BuildHeaders(contextOptions),
                                            "args", contextOptions, 443)]]
  /\ UNCHANGED <<oauth, oauthAppOnly, userConfig, failures, listingVars>>

\* the transport receives a non-2xx response and invokes the bound
\* responseErrorHandler(response, endpoint), which runs to its return
ResponseErrorHandler(c) ==
  /\ call[c].pc = "inflight"
  /\ failures < MaxFailures
  /\ \E response \in Responses :
       call' = [call EXCEPT ![c] = ErrorHandler(c, response)]
  /\ failures' = failures + 1
  /\ UNCHANGED <<oauth, oauthAppOnly, userConfig, listingVars>>

\* the provider's refresh()/auth()/applicationOnlyAuth() promise fulfils:
\* the provider holds a new access token
ReauthFulfilled(c) ==
  /\ call[c].pc = "reauth"
  /\ IF call[c].reauth = "applicationOnlyAuth"
     THEN /\ oauthAppOnly' = [oauthAppOnly EXCEPT !.gen = @ + 1]
          /\ oauth' = oauth
          /\ call' = [call EXCEPT ![c].pc = "reauthed",
                                  ![c].reauthGen = oauthAppOnly.gen + 1]
     ELSE /\ oauth' = [oauth EXCEPT !.hasAccessToken = TRUE, !.gen = @ + 1]
          /\ oauthAppOnly' = oauthAppOnly
          /\ call' = [call EXCEPT ![c].pc = "reauthed",
                                  ![c].reauthGen = oauth.gen + 1]
  /\ UNCHANGED <<userConfig, failures, listingVars>>

\* the provider's promise rejects: reauthPromise.then(...) rejects with it
ReauthRejected(c) ==
  /\ call[c].pc = "reauth"
  /\ call' = [call EXCEPT ![c] = Rejected(@, ReauthError)]
  /\ UNCHANGED <<oauth, oauthAppOnly, userConfig, failures, listingVars>>

\* variant: the callback does not wait for the reauth promise to fulfil
ReauthThenEarly(c) ==
  /\ call[c].pc \in {"reauth", "reauthed"}
  /\ LET endpoint == [call[c].endpoint EXCEPT
                        !.headers = BuildHeaders(call[c].endpoint.contextOptions)]
     IN  call' = [call EXCEPT ![c] =
                    Resolved([@ EXCEPT !.endpoint = endpoint],
                             ModifiedEndpoint(endpoint))]
  /\ UNCHANGED <<oauth, oauthAppOnly, userConfig, failures, listingVars>>

\* variant: the retry endpoint keeps the headers the failed request was sent with
ReauthThenStaleHeaders(c) ==
  /\ call[c].pc = "reauthed"
  /\ call' = [call EXCEPT ![c] =
                Resolved(@, [call[c].endpoint EXCEPT !.headers = call[c].handled.headers])]
  /\ UNCHANGED <<oauth, oauthAppOnly, userConfig, failures, listingVars>>

\* the callback of reauthPromise.then (lines 138-153): setHeaders on the
\* failed endpoint, build the modified endpoint, resolve with it
ReauthThen(c) ==
  /\ call[c].pc = "reauthed"
  /\ LET endpoint == [call[c].endpoint EXCEPT
                        !.headers = BuildHeaders(call[c].endpoint.contextOptions)]
     IN  call' = [call EXCEPT ![c] =
                    Resolved([@ EXCEPT !.endpoint = endpoint],
                             ModifiedEndpoint(endpoint))]
  /\ UNCHANGED <<oauth, oauthAppOnly, userConfig, failures, listingVars>>

\* the transport takes the endpoint the handler resolved with and sends it;
\* retries counts the retry endpoints sent for the call
RetryRequest(c) ==
  /\ call[c].pc = "retry"
  /\ call' = [call EXCEPT ![c].pc = "inflight", ![c].endpoint = call[c].retry,
                          ![c].retries = @ + 1]
  /\ UNCHANGED <<oauth, oauthAppOnly, userConfig, failures, listingVars>>

\* the transport fulfils with a 2xx response: callRedditApi hands it to
\* handleSuccessResponse (lines 69-71)
HandleSuccessResponse(c, bodies) ==
  /\ call[c].pc = "inflight"
  /\ \E body \in bodies :
       LET response == [status |-> 200, body |-> body]
           result   == HandleSuccess(response, call[c].endpoint)
       IN  call' = [call EXCEPT ![c].pc = result.pc,
                                ![c].success = response,
                                ![c].data = result.data]
  /\ UNCHANGED <<oauth, oauthAppOnly, userConfig, failures, listingVars>>

-----------------------------------------------------------------------------
(* Listing cursor: values *)

Null == "null"

\* limit = endpoint.args.limit || 25
DefaultLimit == 25

\* names of the children of a listing
ChildNames == {"t3_a", "t3_b", "t3_c"}

\* a child of a listing: child.data.name and child.data.stickied
Child(name, stickied) == [name |-> name, stickied |-> stickied]

\* the limit argument of the original call; 0 stands for an absent limit
GivenLimits == {0, 2}

\* the after argument of the original call; Null stands for an absent one
GivenCursors == {Null, "t3_x"}

\* cursors a response carries in listing.data.before / listing.data.after
ResponseCursors == {Null, "t3_r"}

\* the responses of SpecSlice: every listing of up to MaxChildren children,
\* with every pair of cursors
SliceResponses ==
  UNION { [children : [1..n -> [name : ChildNames, stickied : BOOLEAN]],
           before : ResponseCursors, after : ResponseCursors] :
          n \in 0..MaxChildren }

\* the listings of SpecListing: empty, all stickied, none stickied, the
\* last child stickied, the first child stickied
NavListings ==
  { <<>>,
    <<Child("t3_a", TRUE)>>,
    <<Child("t3_a", FALSE), Child("t3_b", FALSE)>>,
    <<Child("t3_a", FALSE), Child("t3_b", TRUE)>>,
    <<Child("t3_a", TRUE), Child("t3_b", FALSE)>> }

\* the responses of SpecListing: `after` names the last child, as reddit's
\* listings do
NavResponses ==
  { [children |-> l, before |-> Null,
     after |-> IF l = <<>> THEN Null ELSE l[Len(l)].name] : l \in NavListings }

NoRequest == [none |-> TRUE]
NoCall    == [op |-> "none"]

\* x || d for a number: 0 is falsy
OrDefault(x, d) == IF x = 0 THEN d ELSE x

\* x || null for a cursor: an absent cursor is falsy
OrNull(x) == IF x = Null THEN Null ELSE x

RECURSIVE Filter(_, _)
\* variant: the filter keeps every child
FilterKeepAll(seq, stickied) == seq

\* Array.prototype.filter with child.data.stickied (or its negation)
Filter(seq, stickied) ==
  IF seq = <<>> THEN <<>>
  ELSE IF Head(seq).stickied = stickied
       THEN <<Head(seq)>> \o Filter(Tail(seq), stickied)
       ELSE Filter(Tail(seq), stickied)

\* the slice getSlice builds from a result (lines 224-251); `request` keeps
\* the arguments of the request that produced it
Slice(endpoint, request, cnt, data) ==
  [endpoint    |-> endpoint,
   request     |-> request,
   count       |-> cnt,
   before      |-> OrNull(data.before),
   after       |-> OrNull(data.after),
   allChildren |-> data.children,
   empty       |-> Len(data.children) = 0,
   children    |-> Filter(data.children, FALSE),
   stickied    |-> Filter(data.children, TRUE)]

\* variant: after is the name of the last child, stickied or not
NextArgsLastOfAll(args, slice, cnt) ==
  [args EXCEPT !.before = Null,
               !.after = slice.allChildren[Len(slice.allChildren)].name,
               !.count = cnt]

\* slice.next: newArgs after lines 256-259
NextArgs(args, slice, cnt) ==
  [args EXCEPT !.before = Null,
               !.after = slice.children[Len(slice.children)].name,
               !.count = cnt]

\* slice.previous: newArgs after lines 273-276
PreviousArgs(args, slice, cnt) ==
  [args EXCEPT !.before = slice.children[1].name,
               !.after = Null,
               !.count = cnt]

\* variant: after keeps the cursor the endpoint already carries
StartArgsKeepAfter(args, startCursor, cnt) ==
  [args EXCEPT !.before = Null, !.count = cnt]

\* slice.start: newArgs after lines 290-293
StartArgs(args, startCursor, cnt) ==
  [args EXCEPT !.before = Null, !.after = startCursor, !.count = cnt]

\* new Endpoint(..., endpoint.hostname, endpoint.method, endpoint.path,
\*              buildHeaders(endpoint.contextOptions), newArgs,
\*              endpoint.contextOptions, endpoint.port): its args are a copy
\* of the arguments given
ListingEndpoint(endpoint, newArgs) ==
  [hostname |-> endpoint.hostname, method |-> endpoint.method,
   path |-> endpoint.path,
   headers |-> BuildHeaders(endpoint.contextOptions),
   args |-> newArgs,
   contextOptions |-> endpoint.contextOptions, port |-> endpoint.port]

\* the request getSlice(endpoint) hands to callRedditApi
Request(id, endpoint) ==
  [endpoint |-> id, method |-> endpoint.method, path |-> endpoint.path,
   args |-> endpoint.args]

-----------------------------------------------------------------------------
(* Listing cursor: actions *)

\* path(p).listing(args, contextOptions) -> getListing(endpoint)
\* (lines 211-218, 313, 348-357)
GetListing ==
  /\ endpoints = <<>>
  /\ \E lim \in GivenLimits, after \in GivenCursors :
       LET args == [limit |-> lim, before |-> Null, after |-> after, count |-> 0]
           contextOptions == [bypassAuth |-> FALSE, decodeHtmlEntities |-> FALSE]
           endpoint == [hostname |-> "oauth.reddit.com", method |-> "get",
                        path |-> "/r/test/new",
                        headers |-> BuildHeaders(contextOptions),
                        args |-> args,
                        contextOptions |-> contextOptions, port |-> 443]
       IN  /\ given' = args
           /\ count' = 0
           /\ limit' = OrDefault(args.limit, DefaultLimit)
           /\ start' = OrNull(args.after)
           /\ endpoints' = <<endpoint>>
           /\ pending' = Request(1, endpoint)
  /\ calls' = <<>>
  /\ UNCHANGED <<slices, last, navs, reqVars>>

\* callRedditApi resolves with a listing: the callback of getSlice builds
\* the slice (lines 222-309)
GetSlice(responses) ==
  /\ pending # NoRequest
  /\ \E data \in responses :
       slices' = Append(slices, Slice(pending.endpoint, pending.args, count, data))
  /\ pending' = NoRequest
  /\ UNCHANGED <<given, count, limit, start, endpoints, last, navs, calls, reqVars>>

\* callRedditApi rejects, or the result is no listing: getSlice rejects and
\* no slice is built
GetSliceRejected ==
  /\ pending # NoRequest
  /\ pending' = NoRequest
  /\ UNCHANGED <<given, count, limit, start, endpoints, slices, last, navs, calls,
                 reqVars>>

\* variant: next() counts on from the count of the slice it is called on
SliceNextOwnCount(i) ==
  /\ pending = NoRequest
  /\ navs < MaxNav
  /\ navs' = navs + 1
  /\ calls' = Append(calls, "next")
  /\ count' = slices[i].count + limit
  /\ LET slice == slices[i]
         id    == slice.endpoint
         endpoint == endpoints[id]
     IN  IF slice.children = <<>>
         \* line 258 throws a TypeError; newArgs.before is already set
         THEN /\ endpoints' = [endpoints EXCEPT ![id].args.before = Null]
              /\ pending' = NoRequest
              /\ last' = [op |-> "next", slice |-> i, thrown |-> TRUE,
                          countBefore |-> count]
         ELSE LET newArgs == NextArgs(endpoint.args, slice, count')
                  created == ListingEndpoint(endpoint, newArgs)
              IN  /\ endpoints' = Append([endpoints EXCEPT ![id].args = newArgs],
                                         created)
                  /\ pending' = Request(Len(endpoints) + 1, created)
                  /\ last' = [op |-> "next", slice |-> i, thrown |-> FALSE,
                              countBefore |-> count, request |-> pending']
  /\ UNCHANGED <<given, limit, start, slices, reqVars>>

\* slice.next() on slice i (lines 253-268)
SliceNext(i) ==
  /\ pending = NoRequest
  /\ navs < MaxNav
  /\ navs' = navs + 1
  /\ calls' = Append(calls, "next")
  /\ count' = count + limit
  /\ LET slice == slices[i]
         id    == slice.endpoint
         endpoint == endpoints[id]
     IN  IF slice.children = <<>>
         \* line 258 throws a TypeError; newArgs.before is already set
         THEN /\ endpoints' = [endpoints EXCEPT ![id].args.before = Null]
              /\ pending' = NoRequest
              /\ last' = [op |-> "next", slice |-> i, thrown |-> TRUE,
                          countBefore |-> count]
         ELSE LET newArgs == NextArgs(endpoint.args, slice, count')
                  created == ListingEndpoint(endpoint, newArgs)
              IN  /\ endpoints' = Append([endpoints EXCEPT ![id].args = newArgs],
                                         created)
                  /\ pending' = Request(Len(endpoints) + 1, created)
                  /\ last' = [op |-> "next", slice |-> i, thrown |-> FALSE,
                              countBefore |-> count, request |-> pending']
  /\ UNCHANGED <<given, limit, start, slices, reqVars>>

\* slice.previous() on slice i (lines 270-285)
SlicePrevious(i) ==
  /\ pending = NoRequest
  /\ navs < MaxNav
  /\ navs' = navs + 1
  /\ calls' = Append(calls, "previous")
  /\ count' = count - limit
  /\ LET slice == slices[i]
         id    == slice.endpoint
         endpoint == endpoints[id]
     IN  IF slice.children = <<>>
         \* line 274 throws a TypeError before newArgs is written
         THEN /\ endpoints' = endpoints
              /\ pending' = NoRequest
              /\ last' = [op |-> "previous", slice |-> i, thrown |-> TRUE,
                          countBefore |-> count]
         ELSE LET newArgs == PreviousArgs(endpoint.args, slice, count')
                  created == ListingEndpoint(endpoint, newArgs)
              IN  /\ endpoints' = Append([endpoints EXCEPT ![id].args = newArgs],
                                         created)
                  /\ pending' = Request(Len(endpoints) + 1, created)
                  /\ last' = [op |-> "previous", slice |-> i, thrown |-> FALSE,
                              countBefore |-> count, request |-> pending']
  /\ UNCHANGED <<given, limit, start, slices, reqVars>>

\* slice.start() on slice i (lines 287-302)
SliceStart(i) ==
  /\ pending = NoRequest
  /\ navs < MaxNav
  /\ navs' = navs + 1
  /\ calls' = Append(calls, "start")
  /\ count' = 0
  /\ LET slice == slices[i]
         id    == slice.endpoint
         endpoint == endpoints[id]
         newArgs == StartArgs(endpoint.args, start, count')
         created == ListingEndpoint(endpoint, newArgs)
     IN  /\ endpoints' = Append([endpoints EXCEPT ![id].args = newArgs], created)
         /\ pending' = Request(Len(endpoints) + 1, created)
         /\ last' = [op |-> "start", slice |-> i, thrown |-> FALSE,
                     countBefore |-> count, request |-> pending']
  /\ UNCHANGED <<given, limit, start, slices, reqVars>>

\* slice.requery() on slice i (lines 304-306)
SliceRequery(i) ==
  /\ pending = NoRequest
  /\ navs < MaxNav
  /\ navs' = navs + 1
  /\ calls' = Append(calls, "requery")
  /\ LET id == slices[i].endpoint
     IN  /\ pending' = Request(id, endpoints[id])
         /\ last' = [op |-> "requery", slice |-> i, thrown |-> FALSE,
                     countBefore |-> count, request |-> pending']
  /\ UNCHANGED <<given, count, limit, start, endpoints, slices, reqVars>>

-----------------------------------------------------------------------------
(* The listing cursor is idle in the request machine's specification. *)

ListingIdle ==
  /\ given = [none |-> TRUE]
  /\ count = 0
  /\ limit = 0
  /\ start = Null
  /\ endpoints = <<>>
  /\ slices = <<>>
  /\ calls = <<>>
  /\ pending = NoRequest
  /\ last = NoCall
  /\ navs = 0

\* the token states of the user-context provider: the answers of
\* hasAccessToken(), canRefreshAccessToken() and hasRefreshToken(), and the
\* generation of its access token; a provider that holds a refresh token can
\* refresh
ProviderStates ==
  { p \in [hasAccessToken : BOOLEAN, canRefreshAccessToken : BOOLEAN,
           hasRefreshToken : BOOLEAN, gen : {0}] :
      p.hasRefreshToken => p.canRefreshAccessToken }

\* the configurations: a Node.js client of either grant type
UserConfigs == [isNode : {TRUE}, oauthType : {"script", "explicit"}]

Init ==
  /\ oauth \in ProviderStates
  /\ oauthAppOnly = [gen |-> 0]
  /\ userConfig \in UserConfigs
  /\ call = [c \in Calls |-> IdleCall]
  /\ failures = 0
  /\ ListingIdle

\* the context options of the calls of Spec
SpecContextOptions == [bypassAuth : BOOLEAN, decodeHtmlEntities : {FALSE}]

Next ==
  \E c \in Calls :
    \/ CallRedditApi(c, SpecContextOptions)
    \/ ResponseErrorHandler(c)
    \/ ReauthFulfilled(c)
    \/ ReauthRejected(c)
    \/ ReauthThen(c)
    \/ RetryRequest(c)
    \/ HandleSuccessResponse(c, SpecBodies)

Spec == Init /\ [][Next]_vars


-----------------------------------------------------------------------------
(* Properties of responseErrorHandler.  call[c] describes the latest       *)
(* invocation of the handler for call c.                                   *)

HandlerRan(c) == call[c].response # NoResponse

\* the response's www-authenticate header contains 'insufficient_scope'
ScopeHeader(c) ==
  \E i \in 1..Len(call[c].response.wwwAuthenticate.tokens) :
     call[c].response.wwwAuthenticate.tokens[i] = "insufficient_scope"

NoReauthAction(c) ==
  /\ call[c].refreshCalls = 0
  /\ call[c].authCalls = 0
  /\ call[c].appAuthCalls = 0
  /\ call[c].reauth = "none"

\* the Authorization header buildHeaders yields for the provider state the
\* handler was invoked in
AuthorizationAtEntry(c) ==
  IF call[c].entry.bypassAuth \/ call[c].entry.isApplicationOnly
  THEN <<"app", call[c].entry.appGen>>
  ELSE <<"user", call[c].entry.userGen>>

\* C1: a response whose www-authenticate header contains insufficient_scope
\* is rejected with the insufficient-scope error whatever its status and the
\* provider state, with no reauth action, no event and no retry endpoint.
C1_InsufficientScopeFirst ==
  \A c \in Calls :
    (HandlerRan(c) /\ ScopeHeader(c)) =>
      /\ call[c].outcome = "reject"
      /\ call[c].error = ResponseError(MsgScope, call[c].response, call[c].handled)
      /\ NoReauthAction(c)
      /\ call[c].emits = 0
      /\ call[c].retry = NoEndpoint

C1_Witness ==
  \E c \in Calls :
    /\ HandlerRan(c) /\ ScopeHeader(c)
    /\ call[c].response.status = 401
    /\ call[c].entry.hasRefreshToken
    /\ call[c].outcome = "reject"

\* C2 as stated: every 401 handled while the user-context provider holds a
\* refresh token makes exactly one refresh() call and resolves with a retry
\* endpoint (it never rejects).
C2_Original ==
  \A c \in Calls :
    (HandlerRan(c) /\ call[c].response.status = 401 /\ call[c].entry.hasRefreshToken) =>
      /\ call[c].refreshCalls = 1
      /\ call[c].outcome \in {"pending", "retry"}

\* C2 amended: a 401 without the insufficient_scope header, handled while
\* bypassAuth is unset and the user-context provider can refresh and holds a
\* refresh token, makes exactly one refresh() call and no other reauth action;
\* no retry endpoint exists before the refresh has completed; once it has
\* succeeded the handler resolves with one retry endpoint whose Authorization
\* header is the user token obtained by that refresh or a later one; if the
\* refresh fails the handler rejects with that failure and no retry endpoint.
C2_RefreshOnceThenRetry ==
  \A c \in Calls :
    ( /\ HandlerRan(c)
      /\ call[c].response.status = 401
      /\ ~ScopeHeader(c)
      /\ ~call[c].entry.bypassAuth
      /\ call[c].entry.canRefreshAccessToken
      /\ call[c].entry.hasRefreshToken ) =>
      /\ call[c].refreshCalls = 1
      /\ call[c].authCalls = 0
      /\ call[c].appAuthCalls = 0
      /\ call[c].emits = 0
      /\ call[c].outcome \in {"pending", "retry", "reject"}
      /\ call[c].outcome = "pending" => call[c].retry = NoEndpoint
      /\ call[c].outcome = "reject" =>
           /\ call[c].error = ReauthError
           /\ call[c].retry = NoEndpoint
      /\ call[c].outcome = "retry" =>
           /\ call[c].reauthGen > call[c].entry.userGen
           /\ call[c].retry # NoEndpoint
           /\ call[c].retry.headers.Authorization[1] = "user"
           /\ call[c].retry.headers.Authorization[2] >= call[c].reauthGen

C2_Witness ==
  \E c \in Calls :
    /\ HandlerRan(c)
    /\ call[c].response.status = 401
    /\ ~ScopeHeader(c)
    /\ ~call[c].entry.bypassAuth
    /\ call[c].entry.canRefreshAccessToken
    /\ call[c].entry.hasRefreshToken
    /\ call[c].outcome = "retry"
    /\ call[c].refreshCalls = 1

\* C3 as stated: every 401 handled while canRefreshAccessToken() is false
\* emits access_token_expired once and rejects with the token-expired error,
\* with no reauth action and no retry endpoint.
C3_Original ==
  \A c \in Calls :
    (HandlerRan(c) /\ call[c].response.status = 401
       /\ ~call[c].entry.canRefreshAccessToken) =>
      /\ call[c].emits = 1
      /\ call[c].outcome = "reject"
      /\ call[c].error = ResponseError(MsgExpired, call[c].response, call[c].handled)
      /\ NoReauthAction(c)
      /\ call[c].retry = NoEndpoint

\* C3 amended: a 401 without the insufficient_scope header, handled while the
\* call is not app-only (hasAccessToken() true, so isApplicationOnly() false,
\* and bypassAuth unset) and canRefreshAccessToken() is false, emits
\* access_token_expired exactly once and rejects with the token-expired
\* error, with no reauth action and no retry endpoint.
C3_ExpiredUnrecoverable ==
  \A c \in Calls :
    ( /\ HandlerRan(c)
      /\ call[c].response.status = 401
      /\ ~ScopeHeader(c)
      /\ ~call[c].entry.isApplicationOnly
      /\ ~call[c].entry.bypassAuth
      /\ ~call[c].entry.canRefreshAccessToken ) =>
      /\ call[c].emits = 1
      /\ call[c].outcome = "reject"
      /\ call[c].error = ResponseError(MsgExpired, call[c].response, call[c].handled)
      /\ NoReauthAction(c)
      /\ call[c].retry = NoEndpoint

C3_Witness ==
  \E c \in Calls :
    /\ HandlerRan(c)
    /\ call[c].response.status = 401
    /\ ~ScopeHeader(c)
    /\ ~call[c].entry.isApplicationOnly
    /\ ~call[c].entry.bypassAuth
    /\ ~call[c].entry.canRefreshAccessToken
    /\ call[c].emits = 1
    /\ call[c].outcome = "reject"

\* C4: a response with status in 500..599 and no insufficient_scope header
\* resolves with one retry endpoint whose headers are those buildHeaders
\* yields for the provider state at that moment; refresh(), auth() and
\* applicationOnlyAuth() are not invoked and no event is emitted.
C4_ServerErrorRetries ==
  \A c \in Calls :
    ( /\ HandlerRan(c)
      /\ call[c].response.status \in 500..599
      /\ ~ScopeHeader(c) ) =>
      /\ call[c].outcome = "retry"
      /\ call[c].retry # NoEndpoint
      /\ call[c].retry.headers.Authorization = AuthorizationAtEntry(c)
      /\ call[c].retry.headers.UserAgent =
           (IF userConfig.isNode THEN "snoocore" ELSE "unset")
      /\ call[c].error = NoError
      /\ NoReauthAction(c)
      /\ call[c].emits = 0

C4_Witness ==
  \E c \in Calls :
    /\ HandlerRan(c)
    /\ call[c].response.status = 599
    /\ ~ScopeHeader(c)
    /\ call[c].entry.hasRefreshToken
    /\ call[c].outcome = "retry"
    /\ call[c].entry.userGen > 0

\* C5 as stated: every 404 yields the not-found failure, never a retry, no
\* reauth action and no event, for every provider state.
C5_Original ==
  \A c \in Calls :
    (HandlerRan(c) /\ call[c].response.status = 404) =>
      /\ call[c].outcome = "reject"
      /\ call[c].error = ResponseError(MsgNotFound, call[c].response, call[c].handled)
      /\ call[c].retry = NoEndpoint
      /\ NoReauthAction(c)
      /\ call[c].emits = 0

\* C5 amended: every 404 is rejected and never retried, with no reauth action
\* and no event, for every provider state; the failure is the not-found error
\* unless the www-authenticate header contains insufficient_scope, in which
\* case it is the insufficient-scope error.
C5_NotFoundNeverRetried ==
  \A c \in Calls :
    (HandlerRan(c) /\ call[c].response.status = 404) =>
      /\ call[c].outcome = "reject"
      /\ call[c].error =
           ResponseError(IF ScopeHeader(c) THEN MsgScope ELSE MsgNotFound,
                         call[c].response, call[c].handled)
      /\ call[c].retry = NoEndpoint
      /\ NoReauthAction(c)
      /\ call[c].emits = 0

C5_Witness ==
  \E c \in Calls :
    /\ HandlerRan(c)
    /\ call[c].response.status = 404
    /\ ~ScopeHeader(c)
    /\ call[c].entry.hasRefreshToken
    /\ call[c].outcome = "reject"
    /\ call[c].error.message = MsgNotFound

\* C6 as stated: every outcome of the handler that is not a retry endpoint is
\* an error carrying the triggering response and the endpoint that produced
\* it.
C6_Original ==
  \A c \in Calls :
    (HandlerRan(c) /\ call[c].outcome = "reject") =>
      /\ call[c].error.response = call[c].response
      /\ call[c].error.endpoint = call[c].handled


-----------------------------------------------------------------------------
(* The specification of the listing cursor: the providers stay as they are *)

InitListing ==
  /\ oauth = [hasAccessToken |-> TRUE, canRefreshAccessToken |-> TRUE,
              hasRefreshToken |-> TRUE, gen |-> 0]
  /\ oauthAppOnly = [gen |-> 0]
  /\ userConfig = [isNode |-> TRUE, oauthType |-> "explicit"]
  /\ call = [c \in Calls |-> IdleCall]
  /\ failures = 0
  /\ ListingIdle

NextListing ==
  \/ GetListing
  \/ GetSlice(NavResponses)
  \/ GetSliceRejected
  \/ \E i \in 1..Len(slices) : SliceNext(i)
  \/ \E i \in 1..Len(slices) : SlicePrevious(i)
  \/ \E i \in 1..Len(slices) : SliceStart(i)
  \/ \E i \in 1..Len(slices) : SliceRequery(i)

SpecListing == InitListing /\ [][NextListing]_vars

NextSlice ==
  \/ GetListing
  \/ GetSlice(SliceResponses)
  \/ GetSliceRejected

SpecSlice == InitListing /\ [][NextSlice]_vars


-----------------------------------------------------------------------------
(* Properties of the listing cursor.  `last` is the most recent navigation  *)
(* call: the slice it was made on, the running count before it and the      *)
(* request it sent.                                                         *)

\* positions of the non-stickied (stickied = FALSE) or stickied children
Positions(allChildren, stickied) ==
  { j \in 1..Len(allChildren) : allChildren[j].stickied = stickied }

Greatest(S) == CHOOSE j \in S : \A k \in S : k <= j

\* part holds exactly the children of allChildren at the positions P, in the
\* order of allChildren
IsSubsequenceAt(part, allChildren, P) ==
  /\ Len(part) = Cardinality(P)
  /\ \A j \in P : part[Cardinality({k \in P : k <= j})] = allChildren[j]

\* the limit of the original call: its limit argument, 25 when absent
GivenLimit == IF given.limit = 0 THEN 25 ELSE given.limit

\* C7: next() on a slice with at least one non-stickied child sends a request
\* whose after is the name of the last non-stickied child of that slice,
\* whose before is null and whose count is the running count plus limit.
C7_NextAfterLastChild ==
  (last.op = "next" /\ Positions(slices[last.slice].allChildren, FALSE) # {}) =>
    LET allChildren == slices[last.slice].allChildren
    IN  /\ ~last.thrown
        /\ last.request.args.after =
             allChildren[Greatest(Positions(allChildren, FALSE))].name
        /\ last.request.args.before = Null
        /\ last.request.args.count = last.countBefore + GivenLimit
        /\ count = last.countBefore + GivenLimit

C7_Witness ==
  /\ last.op = "next"
  /\ slices[last.slice].allChildren =
       <<Child("t3_a", FALSE), Child("t3_b", TRUE)>>
  /\ given.limit = 0
  /\ last.countBefore # 0
  /\ last.request.args.after = "t3_a"

\* C8: after any sequence of navigation calls, start() on any slice sends a
\* request whose after is the after argument of the original call (null if it
\* had none), whose before is null and whose count is 0, and the running
\* count is 0.
C8_StartResetsCursor ==
  last.op = "start" =>
    /\ ~last.thrown
    /\ last.request.args.after = given.after
    /\ last.request.args.before = Null
    /\ last.request.args.count = 0
    /\ count = 0

C8_Witness ==
  /\ last.op = "start"
  /\ last.slice = 2
  /\ last.countBefore # 0
  /\ given.after # Null
  /\ endpoints[slices[2].endpoint].args.after = given.after
  /\ slices[2].request.after # given.after

\* C9: in every slice, children and stickied are the non-stickied and the
\* stickied items of allChildren, each in the order of allChildren, together
\* holding every item exactly once; empty is true exactly when allChildren
\* has no element.
C9_ChildrenPartition ==
  \A k \in 1..Len(slices) :
    LET slice == slices[k]
    IN  /\ IsSubsequenceAt(slice.children, slice.allChildren,
                           Positions(slice.allChildren, FALSE))
        /\ IsSubsequenceAt(slice.stickied, slice.allChildren,
                           Positions(slice.allChildren, TRUE))
        /\ Len(slice.children) + Len(slice.stickied) = Len(slice.allChildren)
        /\ slice.empty <=> (Len(slice.allChildren) = 0)

C9_Witness ==
  \E k \in 1..Len(slices) :
    /\ slices[k].allChildren =
         <<Child("t3_a", FALSE), Child("t3_b", TRUE), Child("t3_c", FALSE)>>
    /\ slices[k].children = <<Child("t3_a", FALSE), Child("t3_c", FALSE)>>
    /\ slices[k].stickied = <<Child("t3_b", TRUE)>>
    /\ ~slices[k].empty

\* C10 as stated: requery() on a slice sends a request with the method, path
\* and arguments of the request that produced that slice, also after next(),
\* previous() or start() was called on that slice.
C10_Original ==
  last.op = "requery" =>
    /\ last.request.method = endpoints[slices[last.slice].endpoint].method
    /\ last.request.path = endpoints[slices[last.slice].endpoint].path
    /\ last.request.args = slices[last.slice].request

\* the calls made since the most recent start(), or since getListing
SinceStart(h) ==
  LET starts == { i \in 1..Len(h) : h[i] = "start" }
  IN  IF starts = {} THEN h
      ELSE SubSeq(h, (CHOOSE i \in starts : \A j \in starts : j <= i) + 1, Len(h))

\* the number of calls of op in h
NumberOf(h, op) == Cardinality({ i \in 1..Len(h) : h[i] = op })

\* number of next() calls minus number of previous() calls since the most
\* recent start() or getListing, calls that threw included
NetCalls == NumberOf(SinceStart(calls), "next") - NumberOf(SinceStart(calls), "previous")

\* C19: the running count is one counter for all slices of a getListing
\* call: it always equals limit times (next() calls minus previous() calls
\* since the most recent start() or getListing), on whichever slices they
\* were made, and that is the 'count' argument of the request a next() or
\* previous() has just issued; a multiple of limit.
C19_SharedRunningCount ==
  /\ endpoints # <<>> => count = limit * NetCalls
  /\ (last.op \in {"next", "previous"} /\ ~last.thrown) =>
       /\ last.request.args.count = limit * NetCalls
       /\ \E k \in (0 - MaxNav)..MaxNav : last.request.args.count = k * limit

\* next() called a second time on the first slice, after it produced a
\* second slice: the request counts both calls
C19_Witness ==
  /\ calls = <<"next", "next">>
  /\ Len(slices) >= 2
  /\ last.op = "next" /\ last.slice = 1 /\ ~last.thrown
  /\ slices[1].count = 0
  /\ limit = 2
  /\ last.request.args.count = 4


-----------------------------------------------------------------------------
(* Properties of the 401 branch *)

\* the handler ran for call c on a 401 in app-only mode
AppOnly401(c) ==
  /\ HandlerRan(c)
  /\ call[c].response.status = 401
  /\ (call[c].entry.isApplicationOnly \/ call[c].entry.bypassAuth)

\* the handler of call c invoked applicationOnlyAuth() once and nothing else
OnlyApplicationOnlyAuth(c) ==
  /\ call[c].reauth = "applicationOnlyAuth"
  /\ call[c].appAuthCalls = 1
  /\ call[c].refreshCalls = 0
  /\ call[c].authCalls = 0
  /\ call[c].emits = 0

\* C12 as stated: every 401 handled while isApplicationOnly() is true or
\* bypassAuth is set invokes applicationOnlyAuth(), never refresh() or
\* auth(), and emits nothing.
C12_Original ==
  \A c \in Calls : AppOnly401(c) => OnlyApplicationOnlyAuth(c)

\* C12 amended: a 401 without the insufficient_scope header, handled while
\* isApplicationOnly() is true or bypassAuth is set, invokes
\* applicationOnlyAuth() once, never refresh() or auth(), also when the
\* user-context provider holds a refresh token, and emits nothing; with the
\* header, no reauth action is invoked at all and nothing is emitted.
C12_AppOnlyPrecedence ==
  \A c \in Calls :
    AppOnly401(c) =>
      IF ScopeHeader(c)
      THEN NoReauthAction(c) /\ call[c].emits = 0
      ELSE OnlyApplicationOnlyAuth(c)

\* app-only by bypassAuth while the user-context provider holds both an
\* access token and a refresh token
C12_Witness ==
  \E c \in Calls :
    /\ AppOnly401(c)
    /\ ~ScopeHeader(c)
    /\ call[c].entry.bypassAuth
    /\ ~call[c].entry.isApplicationOnly
    /\ call[c].entry.hasRefreshToken
    /\ call[c].entry.canRefreshAccessToken
    /\ OnlyApplicationOnlyAuth(c)

\* the handler ran for call c on a 401, not app-only, while the provider
\* can refresh but holds no refresh token and the grant type is not script
NoReauthPromise401(c) ==
  /\ HandlerRan(c)
  /\ call[c].response.status = 401
  /\ ~call[c].entry.isApplicationOnly
  /\ ~call[c].entry.bypassAuth
  /\ call[c].entry.canRefreshAccessToken
  /\ ~call[c].entry.hasRefreshToken
  /\ ~call[c].entry.script

\* C13: on such a 401 the handler invokes no reauth action, emits nothing,
\* produces no retry endpoint and no data: it fails, with the TypeError of
\* `reauthPromise.then` on undefined (with the insufficient-scope error
\* when the response carries that header), and the call stays failed.
C13_NoPromiseFails ==
  \A c \in Calls :
    NoReauthPromise401(c) =>
      /\ NoReauthAction(c)
      /\ call[c].emits = 0
      /\ call[c].retry = NoEndpoint
      /\ call[c].outcome = "reject"
      /\ call[c].pc = "rejected"
      /\ call[c].data.kind = "none"
      /\ call[c].error =
           IF ScopeHeader(c)
           THEN ResponseError(MsgScope, call[c].response, call[c].handled)
           ELSE TypeErrorUndefinedThen

C13_Witness ==
  \E c \in Calls :
    /\ NoReauthPromise401(c)
    /\ ~ScopeHeader(c)
    /\ call[c].pc = "rejected"
    /\ call[c].error = TypeErrorUndefinedThen

\* C17: access_token_expired is emitted only for a 401 handled while the
\* call is not app-only (isApplicationOnly() false, bypassAuth unset) and
\* the provider cannot refresh; the handler that emits it emits it once,
\* rejects the call with the token-expired error, invokes no reauth action
\* and produces no retry endpoint.
C17_EmitOnlyWhenUnrecoverable ==
  \A c \in Calls :
    call[c].emits > 0 =>
      /\ call[c].emits = 1
      /\ call[c].response.status = 401
      /\ ~call[c].entry.isApplicationOnly
      /\ ~call[c].entry.bypassAuth
      /\ ~call[c].entry.canRefreshAccessToken
      /\ call[c].pc = "rejected"
      /\ call[c].outcome = "reject"
      /\ call[c].error.message = MsgExpired
      /\ NoReauthAction(c)
      /\ call[c].retry = NoEndpoint

\* an emission on the second failure of a call, the first one retried
C17_Witness ==
  \E c \in Calls :
    /\ call[c].emits = 1
    /\ call[c].retries = 1
    /\ call[c].pc = "rejected"

\* the handler of call c took a reauth path of the 401 branch
OnReauthPath(c) == HandlerRan(c) /\ call[c].reauth # "none"

\* the reauth action of call c has fulfilled
ReauthCompleted(c) == call[c].reauthGen # -1

\* the state of the reauth paths: nothing is rebuilt while the reauth
\* action is pending or after it has rejected
ReauthOrder(c) ==
  /\ call[c].pc \in {"reauth", "reauthed"} =>
       /\ call[c].retry = NoEndpoint
       /\ call[c].endpoint = call[c].handled
  /\ call[c].pc = "reauth" => ~ReauthCompleted(c)
  /\ call[c].pc = "reauthed" => ReauthCompleted(c)
  /\ call[c].retry # NoEndpoint =>
       /\ ReauthCompleted(c)
       /\ call[c].reauth \in {"refresh", "auth"} =>
            /\ call[c].retry.headers.Authorization[1] = "user"
            /\ call[c].retry.headers.Authorization[2] >= call[c].reauthGen
       /\ ( /\ call[c].reauth = "applicationOnlyAuth"
            /\ call[c].retry.headers.Authorization[1] = "app" ) =>
            call[c].retry.headers.Authorization[2] >= call[c].reauthGen
  /\ call[c].error # NoError =>
       /\ call[c].error = ReauthError
       /\ ~ReauthCompleted(c)
       /\ call[c].pc = "rejected"
       /\ call[c].retry = NoEndpoint
       /\ call[c].endpoint = call[c].handled

\* C18: on the 401 reauth paths the retry endpoint and the rebuilt headers
\* appear only in the step that follows the fulfilment of the reauth action,
\* and carry a token no older than the one that action obtained; when the
\* reauth action rejects the handler rejects with that failure, the failed
\* endpoint keeps its headers and there is no retry endpoint.
C18_RetryAfterReauth ==
  /\ [](\A c \in Calls : OnReauthPath(c) => ReauthOrder(c))
  /\ [][\A c \in Calls :
          ( /\ OnReauthPath(c)'
            /\ call[c].retry = NoEndpoint
            /\ call'[c].retry # NoEndpoint ) =>
            /\ call[c].pc = "reauthed"
            /\ ReauthCompleted(c)]_vars

\* one call retried after its refresh fulfilled, the other rejected with
\* the failure of its reauth action
C18_Witness ==
  \E c, d \in Calls :
    /\ OnReauthPath(c) /\ call[c].pc = "retry"
    /\ ReauthCompleted(c)
    /\ call[c].retry.headers # call[c].handled.headers
    /\ OnReauthPath(d) /\ call[d].pc = "rejected"
    /\ call[d].error = ReauthError

-----------------------------------------------------------------------------
(* Properties of retrying *)

\* the latest failure of call c was recoverable: a 5xx, or a 401 whose
\* reauth action has succeeded
Recoverable(c) ==
  /\ HandlerRan(c)
  /\ ~ScopeHeader(c)
  /\ \/ IsServerError(call[c].response.status)
     \/ call[c].response.status = 401 /\ call[c].reauthGen # -1

\* C14: no counter bounds the retries of a call: a recoverable failure
\* yields a retry endpoint and that endpoint is sent, however many retries
\* the call has made; a call is rejected only on a failure that is not
\* recoverable and resolved only on a 2xx response.
C14_RetriesUnbounded ==
  \A c \in Calls :
    /\ (Recoverable(c) /\ call[c].pc # "reauthed") =>
         /\ call[c].outcome = "retry"
         /\ call[c].retry # NoEndpoint
         /\ call[c].pc \in {"retry", "inflight", "resolved"}
    /\ call[c].pc = "retry" => ENABLED RetryRequest(c)
    /\ call[c].pc = "rejected" => ~Recoverable(c)
    /\ call[c].pc = "resolved" => call[c].success # NoResponse

\* every failure the server may answer with went to one call, was recoverable
\* (one of them a 401 with a successful refresh) and was retried
C14_Witness ==
  \E c \in Calls :
    /\ call[c].retries = MaxFailures
    /\ failures = MaxFailures
    /\ call[c].pc = "inflight"
    /\ Recoverable(c)
    /\ call[c].response.status = 401

\* endpoint e has the fields of endpoint f, the headers apart
SameButHeaders(e, f) == e = [f EXCEPT !.headers = e.headers]

\* C16: a retry endpoint, of the 401 path and of the 5xx path alike, has the
\* hostname, method, path, given arguments, context options and port of the
\* failed endpoint and recomputed headers; when the handler returns it on
\* the 5xx path the failed endpoint is as it was, and on the 401 path the
\* failed endpoint differs only by the same recomputed headers.
C16_RetryEndpointFrame ==
  \A c \in Calls :
    call[c].retry # NoEndpoint =>
      /\ SameButHeaders(call[c].retry, call[c].handled)
      /\ call[c].retry.headers.UserAgent = call[c].handled.headers.UserAgent
      /\ call[c].retry.contextOptions.bypassAuth =>
           call[c].retry.headers.Authorization[1] = "app"
      /\ call[c].pc = "retry" =>
           IF call[c].response.status = 401
           THEN call[c].endpoint =
                  [call[c].handled EXCEPT !.headers = call[c].retry.headers]
           ELSE call[c].endpoint = call[c].handled

\* a retry endpoint of each path, with bypassAuth set, whose recomputed
\* headers differ from those the failed request was sent with
C16_Witness ==
  \E c, d \in Calls :
    /\ call[c].pc = "retry" /\ call[c].response.status = 401
    /\ call[c].retry.headers # call[c].handled.headers
    /\ call[c].retry.contextOptions.bypassAuth
    /\ call[d].pc = "retry" /\ IsServerError(call[d].response.status)
    /\ call[d].retry.headers # call[d].handled.headers
    /\ call[d].retry.contextOptions.bypassAuth

-----------------------------------------------------------------------------
(* Properties of concurrent calls *)

\* the refresh() of call d is in flight
RefreshInFlight(d) == call[d].pc = "reauth" /\ call[d].reauth = "refresh"

\* in this step the handler runs for call c on a 401 that takes the
\* refresh path
HandlesRefreshable401(c) ==
  /\ call[c].pc = "inflight"
  /\ call'[c].pc # "inflight"
  /\ failures' = failures + 1
  /\ call'[c].response.status = 401
  /\ ~HasInsufficientScope(call'[c].response)
  /\ ~IsApplicationOnly
  /\ ~call[c].endpoint.contextOptions.bypassAuth
  /\ oauth.canRefreshAccessToken
  /\ oauth.hasRefreshToken

\* C15: reauthentication is not serialized: a handler that takes the refresh
\* path while the refresh() of another call is in flight invokes refresh()
\* itself and leaves the other call's refresh in flight, so that two
\* refresh operations on the provider are in flight at once.
C15_RefreshNotSerialized ==
  [][\A c, d \in Calls :
       (c # d /\ RefreshInFlight(d) /\ HandlesRefreshable401(c)) =>
         /\ call'[c].refreshCalls = 1
         /\ RefreshInFlight(c)'
         /\ RefreshInFlight(d)']_vars

\* two refresh operations in flight at once, each invoked by its own call
C15_Witness ==
  /\ RefreshInFlight("c1")
  /\ RefreshInFlight("c2")
  /\ call["c1"].refreshCalls = 1
  /\ call["c2"].refreshCalls = 1

-----------------------------------------------------------------------------
(* Termination of a call.  The transport completes every request in       *)
(* flight and sends every retry endpoint, a reauth action completes, and  *)
(* the callback of a fulfilled promise runs; the server produces at most  *)
(* MaxFailures error responses.  Whether callRedditApi is called at all   *)
(* is left to the caller.  The specification follows call c1 from every   *)
(* provider state and configuration.                                      *)

\* the request in flight for call c completes, with a 2xx or with an error
Completes(c) == ResponseErrorHandler(c) \/ HandleSuccessResponse(c, SpecBodies)

\* the reauth action of call c completes, fulfilled or rejected
ReauthCompletes(c) == ReauthFulfilled(c) \/ ReauthRejected(c)

NextFair ==
  \/ CallRedditApi("c1", SpecContextOptions)
  \/ ResponseErrorHandler("c1")
  \/ ReauthFulfilled("c1")
  \/ ReauthRejected("c1")
  \/ ReauthThen("c1")
  \/ RetryRequest("c1")
  \/ HandleSuccessResponse("c1", SpecBodies)

Fairness ==
  /\ WF_vars(Completes("c1"))
  /\ WF_vars(ReauthCompletes("c1"))
  /\ WF_vars(ReauthThen("c1"))
  /\ WF_vars(RetryRequest("c1"))

SpecFair == Init /\ [][NextFair]_vars /\ Fairness

\* call c resolved with data, and only that
ResolvedWithData(c) ==
  /\ call[c].pc = "resolved"
  /\ call[c].success # NoResponse
  /\ call[c].data.kind # "none"
  /\ call[c].error = NoError

\* call c rejected with an error, and only that
RejectedWithError(c) ==
  /\ call[c].pc = "rejected"
  /\ call[c].error # NoError
  /\ call[c].success = NoResponse
  /\ call[c].data.kind = "none"

\* C20: with the transport and the reauth actions weakly fair and finitely
\* many error responses, every call made ends either resolved with data or
\* rejected with an error, never both, and stays there.
C20_CallTerminates ==
  /\ \A c \in Calls :
       (call[c].pc # "idle") ~> (ResolvedWithData(c) \/ RejectedWithError(c))
  /\ [](\A c \in Calls :
         /\ call[c].pc = "resolved" => ResolvedWithData(c)
         /\ call[c].pc = "rejected" => RejectedWithError(c))
  /\ [][\A c \in Calls :
         /\ ResolvedWithData(c) => ResolvedWithData(c)'
         /\ RejectedWithError(c) => RejectedWithError(c)']_vars

\* a call that resolved after every failure the server had to give, the
\* last of them a 401 recovered by a reauth action
C20_Witness ==
  \E c \in Calls :
    /\ ResolvedWithData(c)
    /\ call[c].retries = MaxFailures
    /\ call[c].response.status = 401

-----------------------------------------------------------------------------
(* The specification of success handling: call c1 alone, answered with a   *)
(* 2xx response, with every context option and every body.                 *)

AllContextOptions == [bypassAuth : BOOLEAN, decodeHtmlEntities : BOOLEAN]

NextSuccess ==
  \/ CallRedditApi("c1", AllContextOptions)
  \/ HandleSuccessResponse("c1", Bodies)

SpecSuccess == InitListing /\ [][NextSuccess]_vars

\* the JSON texts of up to MaxBody tokens, built from the grammar
JsonStringTexts ==
  UNION { { <<Quote>> \o cs \o <<Quote>> : cs \in [1..n -> BodyTokens \ {Quote}] } :
          n \in 0..MaxBody }

RECURSIVE Nested(_, _)
Nested(S, n) ==
  IF n = 0 THEN S
  ELSE Nested(S \cup { <<"[">> \o t \o <<"]">> : t \in S }, n - 1)

JsonTexts == Nested({<<"1">>, <<"[", "]">>} \cup JsonStringTexts, MaxBody)

RECURSIVE Serialize(_)
\* the text of a JSON value
Serialize(v) ==
  IF v.type = "number" THEN <<"1">>
  ELSE IF v.type = "string" THEN <<Quote>> \o v.chars \o <<Quote>>
  ELSE IF v.items = <<>> THEN <<"[", "]">>
  ELSE <<"[">> \o Serialize(v.items[1]) \o <<"]">>

\* the string handed to JSON.parse for call c: the body, '' when absent,
\* entity-decoded when decodeHtmlEntities is set
TextOf(c) ==
  LET body == IF call[c].success.body.present
              THEN call[c].success.body.text ELSE <<>>
  IN  IF call[c].endpoint.contextOptions.decodeHtmlEntities
      THEN [i \in 1..Len(body) |-> IF body[i] = "&quot;" THEN Quote ELSE body[i]]
      ELSE body

\* C11: handleSuccessResponse always resolves: with the parsed structure
\* when the body (entity-decoded first when decodeHtmlEntities is set) is
\* JSON, with that string itself otherwise; it never rejects.
C11_SuccessNeverFails ==
  \A c \in Calls :
    call[c].success # NoResponse =>
      /\ call[c].pc = "resolved"
      /\ IF TextOf(c) \in JsonTexts
         THEN /\ call[c].data.kind = "json"
              /\ Serialize(call[c].data.json) = TextOf(c)
         ELSE /\ call[c].data.kind = "string"
              /\ call[c].data.text = TextOf(c)

\* a body that is JSON as sent but not once decoded: the decoded string
C11_Witness ==
  /\ call["c1"].success # NoResponse
  /\ call["c1"].success.body = Body(<<Quote, "&quot;", Quote>>)
  /\ call["c1"].endpoint.contextOptions.decodeHtmlEntities
  /\ call["c1"].pc = "resolved"
  /\ call["c1"].data = StringData(<<Quote, Quote, Quote>>)

=============================================================================
